---- MODULE Spec2Model ----
(***************************************************************************)
(* Model of bangumi-archive-db: the batched ingestion pipeline             *)
(* (processors/base.py, processors/character_person.py,                    *)
(* processors/subject.py) and the historical backfill walker (main.py).    *)
(*                                                                         *)
(* Two specifications share the pure operators that model the code:        *)
(*   Spec        one processor ingesting files: process_file, with one     *)
(*               step per process_batch call;                              *)
(*   SpecWalker  main() in walker mode, one step per call of               *)
(*               _remove_jsonlines, _checkout_commit, process_data_type.   *)
(***************************************************************************)
EXTENDS Integers, Sequences, FiniteSets, TLC

(***************************************************************************)
(* Bounds of the model.                                                    *)
(***************************************************************************)
\* BATCH_CONFIG['batch_size'] is 1000 (config.py:31); the model scales it down.
batch_size == 2
\* longest list of records read_jsonlines returns for one file
MaxLen == 3
\* snapshot dates are 1..MaxDate
MaxDate == 2

Dates == 1..MaxDate

\* ProcessorFactory.SUPPORTED_TYPES
SUPPORTED_TYPES == {"character", "person", "subject"}

(***************************************************************************)
(* JSON values, as json.loads delivers them.  A value is <<tag, n>>:       *)
(*   <<"absent",0>>  the key is missing (dict.get gives None)              *)
(*   <<"null",0>>    JSON null (None)                                      *)
(*   <<"int",n>>     the integer n                                         *)
(*   <<"numstr",n>>  a string holding the decimal literal of n ("5")       *)
(*   <<"str",0>>     a non-empty string that is no number ("abc")          *)
(*   <<"obj",n>>     an object; n is the bit set of its keys:              *)
(*                     1  an expected key ("5" in score_details, "wish")   *)
(*                     2  "11": digits, outside 1..10                      *)
(*                     4  "zzz": no digit, not an expected key             *)
(*                     8  a superscript two: str.isdigit() is True and     *)
(*                        int() raises ValueError                          *)
(*   <<"list",0>>    a non-empty list                                      *)
(***************************************************************************)
Absent == <<"absent", 0>>
JNull == <<"null", 0>>
JInt(n) == <<"int", n>>
JNumStr(n) == <<"numstr", n>>
JStr == <<"str", 0>>
JObj(n) == <<"obj", n>>
JList == <<"list", 0>>

\* dict.get(key) and the test "is None": a missing key and null both give None
IsNone(v) == v[1] \in {"absent", "null"}

(***************************************************************************)
(* A decoded line.  ty is the Python type json.loads produced; the other   *)
(* fields are the keys of a dict (all Absent when ty is not "dict").       *)
(***************************************************************************)
Item(ty, id, comments, collects, score, score_details, rank, favorite) ==
    [ty |-> ty, id |-> id, comments |-> comments, collects |-> collects,
     score |-> score, score_details |-> score_details, rank |-> rank,
     favorite |-> favorite]

Dict(id, comments, collects) ==
    Item("dict", id, comments, collects, Absent, Absent, Absent, Absent)

SubjectDict(id, score, score_details, rank, favorite) ==
    Item("dict", id, Absent, Absent, score, score_details, rank, favorite)

NonDict(ty) ==
    Item(ty, Absent, Absent, Absent, Absent, Absent, Absent, Absent)

(***************************************************************************)
(* Python helpers used by extract_fields.                                  *)
(***************************************************************************)
\* bool(v): None, 0 and the empty dict are falsy
Truthy(v) ==
    CASE v[1] \in {"absent", "null"} -> FALSE
      [] v[1] = "int" -> v[2] # 0
      [] v[1] = "obj" -> v[2] # 0
      [] OTHER -> TRUE

\* "v or 0"
OrZero(v) == IF Truthy(v) THEN v ELSE JInt(0)

\* int(v): [raise, n]; int("abc") raises ValueError, int(dict/list) TypeError
PyInt(v) ==
    CASE v[1] \in {"int", "numstr"} -> [raise |-> FALSE, n |-> v[2]]
      [] OTHER -> [raise |-> TRUE, n |-> 0]

\* json.dumps(obj): the JSON text of the object, all its keys kept
JsonDumps(v) == <<"json", v[2]>>

(***************************************************************************)
(* validate_data: "true", "false" or "raise" (an exception).               *)
(* "'id' in item" raises TypeError on a number and is False on a list that *)
(* does not hold the string 'id'.                                          *)
(***************************************************************************)
HasId(item) ==
    CASE item.ty = "number" -> "raise"
      [] item.ty = "list" -> "false"
      [] OTHER -> IF IsNone(item.id) THEN "false" ELSE "true"

CharacterPerson_validate_data(item) == HasId(item)

HasKey(n, bit) == (n \div bit) % 2 = 1

\* subject.py lines 80-82: key.isdigit() and 1 <= int(key) <= 10, for every
\* key of score_details; int() is reached for a key that isdigit() accepts
ScoreKeysRaise(v) == v[1] = "obj" /\ HasKey(v[2], 8)

Subject_validate_data(item) ==
    IF HasId(item) # "true" THEN HasId(item)
    ELSE IF ~IsNone(item.score_details) /\ item.score_details[1] # "obj"
         THEN "false"
    ELSE IF ScoreKeysRaise(item.score_details) THEN "raise"
    ELSE IF ~IsNone(item.favorite) /\ item.favorite[1] # "obj"
         THEN "false"
    ELSE "true"

validate_data(kind, item) ==
    IF kind = "subject" THEN Subject_validate_data(item)
    ELSE CharacterPerson_validate_data(item)

(***************************************************************************)
(* extract_fields: [raise, params]; params are the statement's parameters  *)
(* in order, the last one DATA_CONFIG['data_date'].                        *)
(***************************************************************************)
CharacterPerson_extract_fields(item, data_date) ==
    LET c == PyInt(OrZero(item.comments))
        l == PyInt(OrZero(item.collects))
    IN  IF c.raise \/ l.raise
        THEN [raise |-> TRUE, params |-> <<>>]
        ELSE [raise |-> FALSE,
              params |-> <<item.id, JInt(c.n), JInt(l.n), JInt(data_date)>>]

NoneOr(v) == IF IsNone(v) THEN JNull ELSE v

Subject_extract_fields(item, data_date) ==
    [raise |-> FALSE,
     params |-> <<item.id,
                  NoneOr(item.score),
                  IF IsNone(item.score_details) THEN JNull
                  ELSE JsonDumps(item.score_details),
                  NoneOr(item.rank),
                  IF IsNone(item.favorite) THEN JNull
                  ELSE JsonDumps(item.favorite),
                  JInt(data_date)>>]

extract_fields(kind, item, data_date) ==
    IF kind = "subject" THEN Subject_extract_fields(item, data_date)
    ELSE CharacterPerson_extract_fields(item, data_date)

(***************************************************************************)
(* The stored tables.  A row is [id, data_date, vals]; vals holds the      *)
(* non-key columns, each <<>> (NULL) or <<n>>.                             *)
(* Column types decide whether the server accepts a parameter.             *)
(***************************************************************************)
SqlNull == <<>>

\* INTEGER column: an int, or a string literal the server casts to one
ToInteger(v) ==
    CASE v[1] \in {"int", "numstr"} -> [ok |-> TRUE, val |-> <<v[2]>>]
      [] v[1] = "null" -> [ok |-> TRUE, val |-> SqlNull]
      [] OTHER -> [ok |-> FALSE, val |-> SqlNull]

\* DECIMAL(3,1) column: at most two digits before the point
ToDecimal31(v) ==
    CASE v[1] \in {"int", "numstr"} ->
            [ok |-> (v[2] > -100 /\ v[2] < 100), val |-> <<v[2]>>]
      [] v[1] = "null" -> [ok |-> TRUE, val |-> SqlNull]
      [] OTHER -> [ok |-> FALSE, val |-> SqlNull]

\* JSONB column: the server parses the JSON text back into the object
ToJsonb(v) ==
    CASE v[1] = "json" -> [ok |-> TRUE, val |-> <<v[2]>>]
      [] v[1] = "null" -> [ok |-> TRUE, val |-> SqlNull]
      [] OTHER -> [ok |-> FALSE, val |-> SqlNull]

\* character_stats / person_stats (id, comments, collects, data_date)
CharacterPerson_row(p) ==
    LET id == ToInteger(p[1])
        c == ToInteger(p[2])
        l == ToInteger(p[3])
    IN  [ok |-> id.ok /\ id.val # SqlNull /\ c.ok /\ l.ok,
         row |-> [id |-> IF id.val = SqlNull THEN 0 ELSE id.val[1],
                  data_date |-> p[4][2],
                  vals |-> <<c.val, l.val>>]]

\* subject_stats (id, score, score_details, rank, favorite, data_date)
Subject_row(p) ==
    LET id == ToInteger(p[1])
        sc == ToDecimal31(p[2])
        sd == ToJsonb(p[3])
        rk == ToInteger(p[4])
        fv == ToJsonb(p[5])
    IN  [ok |-> id.ok /\ id.val # SqlNull /\ sc.ok /\ sd.ok /\ rk.ok /\ fv.ok,
         row |-> [id |-> IF id.val = SqlNull THEN 0 ELSE id.val[1],
                  data_date |-> p[6][2],
                  vals |-> <<sc.val, sd.val, rk.val, fv.val>>]]

InsertedRow(kind, p) ==
    IF kind = "subject" THEN Subject_row(p) ELSE CharacterPerson_row(p)

\* a primary key on the id alone
KeyIdOnly(r) == <<r.id>>

\* PRIMARY KEY (id, data_date) and ON CONFLICT (id, data_date)
Key(r) == <<r.id, r.data_date>>

(***************************************************************************)
(* get_upsert_sql: INSERT ... ON CONFLICT (id, data_date) DO UPDATE SET    *)
(* every non-key column = EXCLUDED.column.                                 *)
(***************************************************************************)
AddCol(a, b) == IF a = SqlNull \/ b = SqlNull THEN b ELSE <<a[1] + b[1]>>

\* a conflict clause that accumulates instead of overwriting
OnConflictAccumulate(kind, old, new) ==
    [old EXCEPT !.vals = [i \in DOMAIN old.vals |-> AddCol(old.vals[i], new.vals[i])]]

\* ON CONFLICT DO NOTHING: the stored row stays
OnConflictDoNothing(kind, old, new) == old

OnConflictUpdate(kind, old, new) ==
    IF kind = "subject"
    THEN [old EXCEPT !.vals = <<new.vals[1], new.vals[2], new.vals[3], new.vals[4]>>]
    ELSE [old EXCEPT !.vals = <<new.vals[1], new.vals[2]>>]

\* a plain INSERT into a table without the primary key
InsertOnly(kind, table, new) == table \cup {new}

get_upsert_sql(kind, table, new) ==
    IF \E o \in table : Key(o) = Key(new)
    THEN LET old == CHOOSE o \in table : Key(o) = Key(new)
         IN  (table \ {old}) \cup {OnConflictUpdate(kind, old, new)}
    ELSE table \cup {new}

(***************************************************************************)
(* execute_batch(cursor, sql, insert_data): the statements run in order    *)
(* inside the open transaction; the first one the server rejects aborts    *)
(* the call.  db_fail: the server or the connection fails during the call. *)
(* Result: [ok, table] with table the transaction's working copy.          *)
(***************************************************************************)
execute_batch(kind, table, insert_data, db_fail) ==
    LET run[n \in 0..Len(insert_data)] ==
            IF n = 0 THEN [ok |-> ~db_fail, table |-> table]
            ELSE LET prev == run[n - 1]
                     r == InsertedRow(kind, insert_data[n])
                 IN  IF ~prev.ok THEN prev
                     ELSE IF ~r.ok THEN [ok |-> FALSE, table |-> prev.table]
                     ELSE [ok |-> TRUE,
                           table |-> get_upsert_sql(kind, prev.table, r.row)]
    IN  run[Len(insert_data)]

\* connection.commit(): the working copy becomes the committed table
Commit(committed, working) == working

\* autocommit left on: what ran before the failure stays
RollbackKeepsWork(committed, working) == working

\* connection.rollback(): the working copy is dropped
Rollback(committed, working) == committed

(***************************************************************************)
(* process_batch, lines 173-186: the loop over the batch.                  *)
(* Both log calls format item.get('id', 'unknown'); on an item that is no  *)
(* dict that raises AttributeError.  Raised in the warning of line 176 it  *)
(* is caught at line 183, whose own log call raises it again: it leaves    *)
(* the loop (crash).                                                       *)
(***************************************************************************)
LogRaises(item) == item.ty # "dict"

\* a handler that logs and counts nothing
HandlerCountsNothing(item, acc) ==
    IF LogRaises(item) THEN [acc EXCEPT !.crash = TRUE] ELSE acc

\* except Exception (lines 183-186)
Handler(item, acc) ==
    IF LogRaises(item) THEN [acc EXCEPT !.crash = TRUE]
    ELSE [acc EXCEPT !.error_count = @ + 1]

\* one iteration (lines 174-186)
LoopBody(kind, item, data_date, acc) ==
    LET v == validate_data(kind, item)
        e == extract_fields(kind, item, data_date)
    IN  IF v = "raise" THEN Handler(item, acc)
        ELSE IF v = "false"
             THEN IF LogRaises(item) THEN Handler(item, acc)
                  ELSE [acc EXCEPT !.error_count = @ + 1]
        ELSE IF e.raise THEN Handler(item, acc)
        ELSE [acc EXCEPT !.insert_data = Append(@, e.params)]

Collect(kind, batch_data, data_date) ==
    LET loop[n \in 0..Len(batch_data)] ==
            IF n = 0
            THEN [crash |-> FALSE, insert_data |-> <<>>, error_count |-> 0]
            ELSE IF loop[n - 1].crash THEN loop[n - 1]
            ELSE LoopBody(kind, batch_data[n], data_date, loop[n - 1])
    IN  loop[Len(batch_data)]

(***************************************************************************)
(* process_batch(batch_data) on the committed table.                       *)
(* Result: raised (an exception reaches the caller), exec_failed (the      *)
(* statements or the commit failed), the counts returned, the rows handed  *)
(* to execute_batch and the committed table after the call.                *)
(***************************************************************************)
process_batch(kind, table, batch_data, data_date, db_fail) ==
    LET c == Collect(kind, batch_data, data_date)
        x == IF c.insert_data # <<>>
             THEN execute_batch(kind, table, c.insert_data, db_fail)
             ELSE [ok |-> TRUE, table |-> table]
        failed == ~x.ok \/ db_fail
    IN  IF c.crash
        THEN [raised |-> TRUE, exec_failed |-> FALSE,
              success_count |-> 0, error_count |-> 0,
              insert_data |-> c.insert_data,
              table |-> Rollback(table, table)]
        ELSE IF failed
        THEN [raised |-> TRUE, exec_failed |-> TRUE,
              success_count |-> 0, error_count |-> 0,
              insert_data |-> c.insert_data,
              table |-> Rollback(table, x.table)]
        ELSE [raised |-> FALSE, exec_failed |-> FALSE,
              success_count |-> Len(c.insert_data),
              error_count |-> c.error_count,
              insert_data |-> c.insert_data,
              table |-> Commit(table, x.table)]

(***************************************************************************)
(* The records a file can hold (what read_jsonlines appends at line 104:   *)
(* whatever json.loads returns, a dict or not).                            *)
(***************************************************************************)
CharacterRecords ==
    { Dict(JInt(1), JInt(3), Absent),            \* -> (1, 3, 0)
      Dict(JNumStr(1), JNumStr(5), JInt(2)),     \* -> ("1", 5, 2)
      Dict(JNull, JInt(1), JInt(1)),             \* id null: invalid
      Dict(JInt(1), JStr, JNull),                \* int("abc") raises
      Dict(JStr, JInt(4), JInt(4)),              \* id "x": the server rejects it
      NonDict("number") }                        \* the line 5

SubjectRecords ==
    { SubjectDict(JInt(1), JInt(8), JObj(3), JInt(3), JObj(1)),
      SubjectDict(JInt(1), Absent, Absent, JNull, JObj(5)),
      SubjectDict(JInt(1), JInt(8), Absent, Absent, JList),   \* invalid
      SubjectDict(JInt(1), JStr, Absent, Absent, Absent),     \* score "abc"
      NonDict("list") }                                       \* the line [1]

Records(kind) == IF kind = "subject" THEN SubjectRecords ELSE CharacterRecords

BoundedSeq(S, n) == UNION {[1..k -> S] : k \in 0..n}

Min(a, b) == IF a < b THEN a ELSE b

VARIABLES
    store,          \* the committed tables, one per entity kind
    data_date,      \* DATA_CONFIG['data_date']
    data_type,      \* the kind of the processor (its table)
    pc,             \* the processor: "idle", "loop" (line 232), "done", "closed"
    data,           \* what read_jsonlines returned
    i,              \* the loop variable of line 232
    total_success,
    total_error,
    log,            \* one entry per process_batch call of this process_file
    last,           \* the latest process_batch call: its batch, the tables before, its result
    run,            \* 1, or 2 when the same file is ingested again
    plan,           \* run 2: the server failures of run 1, batch by batch
    snap            \* the tables when run 1 ended

evars == <<store, data_date, data_type, pc, data, i, total_success, total_error,
           log, last, run, plan, snap>>

\* the loop stops at the first batch that raises
StopAtFailedBatch(ts, te, res, n) ==
    IF res.raised
    THEN [total_success |-> ts, total_error |-> te + n, go_on |-> FALSE]
    ELSE [total_success |-> ts + res.success_count,
          total_error |-> te + res.error_count, go_on |-> TRUE]

\* the records of a batch that raised are counted nowhere
FailedBatchNotCounted(ts, te, res, n) ==
    IF res.raised
    THEN [total_success |-> ts, total_error |-> te, go_on |-> TRUE]
    ELSE [total_success |-> ts + res.success_count,
          total_error |-> te + res.error_count, go_on |-> TRUE]

\* try (236-238) / except (243-245)
Tally(ts, te, res, n) ==
    IF res.raised
    THEN [total_success |-> ts, total_error |-> te + n, go_on |-> TRUE]
    ELSE [total_success |-> ts + res.success_count,
          total_error |-> te + res.error_count, go_on |-> TRUE]

(***************************************************************************)
(* process_file as one call (lines 204-253): the file's batches in order.  *)
(* db_fail: the server fails during this file's batches.                   *)
(***************************************************************************)
process_file(kind, table, recs, date, db_fail) ==
    LET nb == (Len(recs) + batch_size - 1) \div batch_size
        loop[b \in 0..nb] ==
            IF b = 0
            THEN [table |-> table, total_success |-> 0, total_error |-> 0]
            ELSE LET prev == loop[b - 1]
                     at == (b - 1) * batch_size
                     batch == SubSeq(recs, at + 1, Min(at + batch_size, Len(recs)))
                     res == process_batch(kind, prev.table, batch, date, db_fail)
                     t == Tally(prev.total_success, prev.total_error, res, Len(batch))
                 IN  [table |-> res.table, total_success |-> t.total_success,
                      total_error |-> t.total_error]
    IN  loop[nb]

(***************************************************************************)
(* The table a processor finds: earlier runs of the tool ingested, under   *)
(* each of the dates 1..d, a file holding one valid record.                *)
(***************************************************************************)
StoredBefore(kind) ==
    IF kind = "subject"
    THEN SubjectDict(JInt(1), JInt(7), Absent, JInt(7), Absent)
    ELSE Dict(JInt(1), JInt(7), JInt(7))

RECURSIVE EarlierRuns(_, _)
EarlierRuns(kind, d) ==
    IF d = 0 THEN {}
    ELSE process_file(kind, EarlierRuns(kind, d - 1),
                      <<StoredBefore(kind)>>, d, FALSE).table

NoStore == [k \in SUPPORTED_TYPES |-> {}]

NoCall == [called |-> FALSE, batch |-> <<>>, before |-> NoStore,
           res |-> [raised |-> FALSE, exec_failed |-> FALSE, success_count |-> 0,
                    error_count |-> 0, insert_data |-> <<>>, table |-> {}]]

EngineInit ==
    /\ data_date \in Dates
    /\ data_type \in SUPPORTED_TYPES
    /\ \E d \in 0..MaxDate :
          store = [NoStore EXCEPT ![data_type] = EarlierRuns(data_type, d)]
    /\ pc = "idle"
    /\ data = <<>>
    /\ i = 0
    /\ total_success = 0
    /\ total_error = 0
    /\ log = <<>>
    /\ last = NoCall
    /\ run = 1
    /\ plan = <<>>
    /\ snap = NoStore

(***************************************************************************)
(* process_file, lines 211-230: read the file, return when it is missing   *)
(* or holds no record, else enter the loop.                                *)
(***************************************************************************)
Begin(recs, r) ==
    /\ data' = recs
    /\ i' = 0
    /\ total_success' = 0
    /\ total_error' = 0
    /\ log' = <<>>
    /\ last' = NoCall
    /\ run' = r
    /\ pc' = IF recs = <<>> THEN "done" ELSE "loop"

StartFile ==
    /\ pc = "idle"
    /\ \E d \in Dates, recs \in BoundedSeq(Records(data_type), MaxLen) :
          /\ data_date' = d
          /\ Begin(recs, 1)
    /\ plan' = <<>>
    /\ snap' = IF pc' = "done" THEN store ELSE NoStore
    /\ UNCHANGED <<store, data_type>>

\* the same file under the same date once more, the server failing where it did
Rerun ==
    /\ pc = "done"
    /\ run = 1
    /\ plan' = [k \in 1..Len(log) |-> log[k].db_fail]
    /\ Begin(data, 2)
    /\ UNCHANGED <<store, data_type, data_date, snap>>

(***************************************************************************)
(* process_file, lines 232-248: one iteration of the loop.                 *)
(***************************************************************************)
Batch ==
    /\ pc = "loop"
    /\ i < Len(data)
    /\ \E db_fail \in BOOLEAN :
          LET batch == SubSeq(data, i + 1, Min(i + batch_size, Len(data)))
              res == process_batch(data_type, store[data_type], batch,
                                   data_date, db_fail)
              t == Tally(total_success, total_error, res, Len(batch))
          IN  /\ run = 2 => db_fail = plan[Len(log) + 1]
              /\ store' = [store EXCEPT ![data_type] = res.table]
              /\ total_success' = t.total_success
              /\ total_error' = t.total_error
              /\ i' = IF t.go_on THEN i + batch_size ELSE Len(data)
              /\ log' = Append(log, [db_fail |-> db_fail, at |-> i,
                                     n |-> Len(batch), raised |-> res.raised,
                                     error_count |-> res.error_count])
              /\ last' = [called |-> TRUE, batch |-> batch,
                          before |-> store, res |-> res]
    /\ UNCHANGED <<data_date, data_type, pc, data, run, plan, snap>>

\* the loop is over (lines 250-253)
FinishFile ==
    /\ pc = "loop"
    /\ i >= Len(data)
    /\ pc' = "done"
    /\ snap' = IF run = 1 THEN store ELSE snap
    /\ UNCHANGED <<store, data_date, data_type, data, i, total_success,
                   total_error, log, last, run, plan>>

(***************************************************************************)
(* The walker: main() and its helpers (main.py).                           *)
(***************************************************************************)
\* commits in one git log
MaxCommits == 3
\* failures of the environment in one run: git, the server, a file missing
\* from a commit, an interrupt
MaxFaults == 2

\* _backup_once: types
AllTypes == <<"character", "person", "subject">>

None == <<>>

\* the file of a kind as commit h has it (h = 0: the tree main starts in)
FileContent(kind, h) ==
    IF kind = "subject"
    THEN <<SubjectDict(JInt(1), JInt(h), Absent, Absent, Absent)>>
    ELSE <<Dict(JInt(1), JInt(h), Absent)>>

VARIABLES
    history,        \* git log --reverse, one label per commit: a dump date or 0
    start_date,     \* DATA_CONFIG['start_date']; 0: not set (single pass)
    data_types,     \* what parse_arguments returned
    commits,        \* what _list_dump_commits returned: <<hash, date>> pairs
    wpc,            \* main: "start", "remove", "checkout", "backup", "cleanup",
                    \* "single", "returned"
    idx,            \* the loop of line 222: index into commits
    t,              \* kinds processed in the running _backup_once / single pass
    ok,             \* how many of them returned True
    files,          \* per kind: None, or <<h>> the file of commit h
    checkouts,      \* hashes passed to _checkout_commit
    backups,        \* hashes under which _backup_once was called
    partial,        \* indexes whose _backup_once returned False
    failed_kinds,   \* kinds whose process_data_type returned False
    checkout_failed,
    interrupted,    \* KeyboardInterrupt reached main
    result,         \* main's return value, -1 while it runs
    faults,
    open_connections,   \* processor connections opened and not closed
    max_open            \* the most connections open at one time so far

\* the connections of the processors
cvars == <<open_connections, max_open>>

wvars == <<history, start_date, data_types, commits, wpc, idx, t, ok, files,
           checkouts, backups, partial, failed_kinds, checkout_failed,
           interrupted, result, faults, cvars>>

\* process_file has returned: the processor is closed and dropped
\* (process_data_type, lines 125-133)
CloseProcessor ==
    /\ pc = "done"
    /\ pc' = "closed"
    /\ data' = <<>>
    /\ i' = 0
    /\ total_success' = 0
    /\ total_error' = 0
    /\ log' = <<>>
    /\ last' = NoCall
    /\ run' = 1
    /\ plan' = <<>>
    /\ snap' = NoStore
    /\ UNCHANGED <<store, data_date, data_type>>

(***************************************************************************)
(* _list_dump_commits (lines 144-163): the commits whose subject matches   *)
(* dump-YYYY-MM-DD, oldest first; [] when git fails.  The hash of a commit *)
(* is its position in the log.                                             *)
(***************************************************************************)
RECURSIVE DumpsUpTo(_, _)
DumpsUpTo(h, n) ==
    IF n = 0 THEN <<>>
    ELSE IF h[n] # 0 THEN Append(DumpsUpTo(h, n - 1), <<n, h[n]>>)
    ELSE DumpsUpTo(h, n - 1)

_list_dump_commits(h, git_ok) == IF git_ok THEN DumpsUpTo(h, Len(h)) ELSE <<>>

\* no search: the walk starts at the oldest commit
StartAtOldest(cs, d) == IF cs = <<>> THEN -1 ELSE 1

\* lines 214-218: the index of the first commit dated d, -1 when there is none
RECURSIVE ScanFrom(_, _, _)
ScanFrom(cs, d, n) ==
    IF n > Len(cs) THEN -1
    ELSE IF cs[n][2] = d THEN n
    ELSE ScanFrom(cs, d, n + 1)

\* with no commit dated d the walk falls back to the oldest commit
FallBackToOldest(cs, d) ==
    IF ScanFrom(cs, d, 1) = -1 /\ cs # <<>> THEN 1 ELSE ScanFrom(cs, d, 1)

start_idx(cs, d) == ScanFrom(cs, d, 1)

\* a failed checkout is skipped and the walk goes on
SkipFailedCheckout(h) == "continue"

\* lines 224-226: "return" (return 1) or "continue"
OnCheckoutFailure(h) == "return"

\* a partial failure ends the walk
HaltOnPartialFailure(all_ok) == IF all_ok THEN "continue" ELSE "return"

\* lines 228-229: a warning, nothing else
OnBackupResult(all_ok) == "continue"

\* the checkpoint's date is not written: the date main started with stays
KeepDataDate(cur, d) == cur

\* line 227: cfg.DATA_CONFIG['data_date'] = d.  The processors' DATA_CONFIG
\* (character_person.py line 5, subject.py line 6) is the same dict object.
SetDataDate(cur, d) == d

WalkerInit ==
    /\ start_date \in 0..MaxDate
    \* the single pass never reads the log, the walker never reads data_types
    /\ history \in IF start_date = 0 THEN {<<>>}
                   ELSE BoundedSeq(0..MaxDate, MaxCommits)
    /\ data_types \in IF start_date = 0
                      THEN {AllTypes, <<"character">>, <<"subject">>}
                      ELSE {AllTypes}
    /\ commits = <<>>
    /\ wpc = "start"
    /\ idx = 0
    /\ t = 0
    /\ ok = 0
    /\ files \in [SUPPORTED_TYPES -> {None, <<0>>}]
    /\ checkouts = <<>>
    /\ backups = <<>>
    /\ partial = {}
    /\ failed_kinds = {}
    /\ checkout_failed = FALSE
    /\ interrupted = FALSE
    /\ result = -1
    /\ faults = 0
    /\ open_connections = 0
    /\ max_open = 0

WalkerIdle ==
    /\ history = <<>>
    /\ start_date = 0
    /\ data_types = AllTypes
    /\ commits = <<>>
    /\ wpc = "returned"
    /\ idx = 0
    /\ t = 0
    /\ ok = 0
    /\ files = [k \in SUPPORTED_TYPES |-> None]
    /\ checkouts = <<>>
    /\ backups = <<>>
    /\ partial = {}
    /\ failed_kinds = {}
    /\ checkout_failed = FALSE
    /\ interrupted = FALSE
    /\ result = -1
    /\ faults = 0
    /\ open_connections = 0
    /\ max_open = 0

EngineIdle ==
    /\ store = NoStore
    /\ data_date \in Dates
    /\ data_type = "character"
    /\ pc = "idle"
    /\ data = <<>>
    /\ i = 0
    /\ total_success = 0
    /\ total_error = 0
    /\ log = <<>>
    /\ last = NoCall
    /\ run = 1
    /\ plan = <<>>
    /\ snap = NoStore

engine_only == <<data_type, pc, data, i, total_success, total_error, log, last,
                 run, plan, snap>>

Return(code) ==
    /\ wpc' = "returned"
    /\ result' = code

\* main, lines 206-221 (walker mode)
StartWalk ==
    /\ wpc = "start"
    /\ start_date # 0
    /\ \E git_ok \in BOOLEAN :
          /\ ~git_ok => faults < MaxFaults
          /\ faults' = IF git_ok THEN faults ELSE faults + 1
          /\ commits' = _list_dump_commits(history, git_ok)
    /\ IF commits' = <<>> \/ start_idx(commits', start_date) = -1
       THEN Return(1) /\ idx' = idx
       ELSE /\ idx' = start_idx(commits', start_date)
            /\ wpc' = "remove"
            /\ result' = result
    /\ UNCHANGED <<evars, cvars, history, start_date, data_types, t, ok, files,
                   checkouts, backups, partial, failed_kinds, checkout_failed,
                   interrupted>>

\* main, lines 233-235 (single pass)
StartSinglePass ==
    /\ wpc = "start"
    /\ start_date = 0
    /\ wpc' = "single"
    /\ t' = 0
    /\ ok' = 0
    /\ UNCHANGED <<evars, cvars, history, start_date, data_types, commits, idx, files,
                   checkouts, backups, partial, failed_kinds, checkout_failed,
                   interrupted, result, faults>>

\* _remove_jsonlines (lines 166-174): every file that exists is unlinked; an
\* unlink that raises is passed over (lines 173-174) and its file stays.
\* stuck: the kinds whose unlink raises.
_remove_jsonlines(fs, stuck) ==
    [k \in SUPPORTED_TYPES |-> IF k \in stuck THEN fs[k] ELSE None]

\* the call of _remove_jsonlines at lines 223 and 230
Unlink ==
    \E stuck \in SUBSET {k \in SUPPORTED_TYPES : files[k] # None} :
       /\ Cardinality(stuck) <= 1
       /\ stuck # {} => faults < MaxFaults
       /\ faults' = IF stuck = {} THEN faults ELSE faults + 1
       /\ files' = _remove_jsonlines(files, stuck)

\* git checkout -f h (lines 177-182) when it succeeds: the files h holds are
\* written; a path h does not hold is left as _remove_jsonlines left it
_checkout_commit(fs, h, present) ==
    [k \in SUPPORTED_TYPES |-> IF k \in present THEN <<h>> ELSE fs[k]]

\* line 223
RemoveBefore ==
    /\ wpc = "remove"
    /\ Unlink
    /\ wpc' = "checkout"
    /\ UNCHANGED <<evars, cvars, history, start_date, data_types, commits, idx, t, ok,
                   checkouts, backups, partial, failed_kinds, checkout_failed,
                   interrupted, result>>

\* lines 224-228: _checkout_commit(h), then the date, then _backup_once begins.
\* The commit holds the files in present.
Checkout ==
    /\ wpc = "checkout"
    /\ LET h == commits[idx][1]
           d == commits[idx][2]
       IN  /\ checkouts' = Append(checkouts, h)
           /\ \/ \E present \in SUBSET SUPPORTED_TYPES :
                    /\ Cardinality(present) >= 2
                    /\ present # SUPPORTED_TYPES => faults < MaxFaults
                    /\ faults' = IF present = SUPPORTED_TYPES THEN faults
                                 ELSE faults + 1
                    /\ files' = _checkout_commit(files, h, present)
                    /\ data_date' = SetDataDate(data_date, d)
                    /\ backups' = Append(backups, h)
                    /\ wpc' = "backup"
                    /\ t' = 0
                    /\ ok' = 0
                    /\ UNCHANGED <<checkout_failed, result, idx>>
              \/ /\ faults < MaxFaults
                 /\ faults' = faults + 1
                 /\ checkout_failed' = TRUE
                 /\ IF OnCheckoutFailure(h) = "return"
                    THEN Return(1) /\ idx' = idx
                    ELSE /\ idx' = idx + 1
                         /\ IF idx + 1 > Len(commits)
                            THEN Return(0)
                            ELSE wpc' = "remove" /\ result' = result
                 /\ UNCHANGED <<files, data_date, backups, t, ok>>
    /\ UNCHANGED <<store, engine_only, cvars, history, start_date, data_types, commits,
                   partial, failed_kinds, interrupted>>

(***************************************************************************)
(* process_data_type (lines 92-137) for the next kind of the running loop  *)
(* (_backup_once, line 189, or the single pass, line 237).                 *)
(* outcome: "connect" (connect_db fails), "create" (create_tables raises), *)
(* "server" (the server fails while the file is processed), "fine".        *)
(***************************************************************************)
\* the file is ingested whenever it is there, also after create_tables raised
IngestDespiteFailure(kind, table, file, date, outcome) ==
    IF outcome = "connect" THEN [returns |-> FALSE, table |-> table, conn |-> "none"]
    ELSE IF file = None THEN [returns |-> FALSE, table |-> table, conn |-> "closed"]
    ELSE [returns |-> outcome # "create",
          table |-> process_file(kind, table, FileContent(kind, file[1]), date,
                                 outcome = "server").table,
          conn |-> "closed"]

\* close_connection is called after process_file only, not in a finally
CloseOnlyOnSuccess(kind, table, file, date, outcome) ==
    IF outcome = "connect" THEN [returns |-> FALSE, table |-> table, conn |-> "none"]
    ELSE IF outcome = "create" \/ file = None
    THEN [returns |-> FALSE, table |-> table, conn |-> "open"]
    ELSE [returns |-> TRUE,
          table |-> process_file(kind, table, FileContent(kind, file[1]), date,
                                 outcome = "server").table,
          conn |-> "closed"]

\* lines 104-133: what the call returns, the table it leaves and its
\* connection when it returns: "none" (connect_db failed, nothing was opened),
\* "closed" (close_connection ran, lines 131-133) or "open"
process_data_type(kind, table, file, date, outcome) ==
    IF outcome = "connect"                                         \* 109-111
    THEN [returns |-> FALSE, table |-> table, conn |-> "none"]
    ELSE IF outcome = "create"                                     \* 115, 128-133
    THEN [returns |-> FALSE, table |-> table, conn |-> "closed"]
    ELSE IF file = None                                            \* 118-120, 131-133
    THEN [returns |-> FALSE, table |-> table, conn |-> "closed"]
    ELSE [returns |-> TRUE,                                        \* 123-126, 131-133
          table |-> process_file(kind, table, FileContent(kind, file[1]), date,
                                 outcome = "server").table,
          conn |-> "closed"]

ProcessDataType ==
    /\ wpc \in {"backup", "single"}
    /\ LET types == IF wpc = "backup" THEN AllTypes ELSE data_types
       IN  /\ t < Len(types)
           /\ \E outcome \in {"connect", "create", "server", "fine"} :
                 \E kind \in {types[t + 1]} :
                 \E f \in {process_data_type(kind, store[kind], files[kind],
                                             data_date, outcome)} :
                 \E returns \in {f.returns} :
                     /\ outcome # "fine" => faults < MaxFaults
                     /\ faults' = IF outcome = "fine" THEN faults ELSE faults + 1
                     /\ store' = [store EXCEPT ![kind] = f.table]
                     /\ ok' = IF returns THEN ok + 1 ELSE ok
                     /\ failed_kinds' = IF returns THEN failed_kinds
                                        ELSE failed_kinds \cup {kind}
                     /\ t' = t + 1
                     \* the call holds one connection from connect_db to its
                     \* return, unless connect_db failed
                     /\ max_open' = IF f.conn = "none" \/ open_connections < max_open
                                    THEN max_open ELSE open_connections + 1
                     /\ open_connections' = IF f.conn = "open"
                                            THEN open_connections + 1
                                            ELSE open_connections
    /\ UNCHANGED <<data_date, engine_only, history, start_date, data_types,
                   commits, wpc, idx, files, checkouts, backups, partial,
                   checkout_failed, interrupted, result>>

\* _backup_once returns (line 191); lines 228-229
BackupDone ==
    /\ wpc = "backup"
    /\ t = Len(AllTypes)
    /\ partial' = IF ok = Len(AllTypes) THEN partial ELSE partial \cup {idx}
    /\ IF OnBackupResult(ok = Len(AllTypes)) = "continue"
       THEN wpc' = "cleanup" /\ result' = result
       ELSE Return(1)
    /\ UNCHANGED <<evars, cvars, history, start_date, data_types, commits, idx, t, ok,
                   files, checkouts, backups, failed_kinds, checkout_failed,
                   interrupted, faults>>

\* line 230, then the next commit of the loop or lines 231-232
Cleanup ==
    /\ wpc = "cleanup"
    /\ Unlink
    /\ idx' = idx + 1
    /\ IF idx + 1 > Len(commits)
       THEN Return(0)
       ELSE wpc' = "remove" /\ result' = result
    /\ UNCHANGED <<evars, cvars, history, start_date, data_types, commits, t, ok,
                   checkouts, backups, partial, failed_kinds, checkout_failed,
                   interrupted>>

\* lines 239-246
SinglePassDone ==
    /\ wpc = "single"
    /\ t = Len(data_types)
    /\ Return(IF ok = Len(data_types) THEN 0 ELSE 1)
    /\ UNCHANGED <<evars, cvars, history, start_date, data_types, commits, idx, t, ok,
                   files, checkouts, backups, partial, failed_kinds,
                   checkout_failed, interrupted, faults>>

\* KeyboardInterrupt anywhere inside the try of line 206 (lines 248-250)
Interrupt ==
    /\ wpc \notin {"start", "returned"}
    /\ faults < MaxFaults
    /\ faults' = faults + 1
    /\ interrupted' = TRUE
    /\ Return(1)
    /\ UNCHANGED <<evars, cvars, history, start_date, data_types, commits, idx, t, ok,
                   files, checkouts, backups, partial, failed_kinds,
                   checkout_failed>>

(***************************************************************************)
(* read_jsonlines (base.py lines 76-117), one step per line of the file.   *)
(* A line is blank, or JSON text with the value json.loads gives for it,   *)
(* or text json.loads rejects, or bytes that are not UTF-8.                *)
(***************************************************************************)
BlankLine == [text |-> "blank", value |-> NonDict("none")]

Malformed == [text |-> "malformed", value |-> NonDict("none")]

Undecodable == [text |-> "undecodable", value |-> NonDict("none")]

JsonLine(v) == [text |-> "json", value |-> v]

SampleLines ==
    { BlankLine, Malformed, Undecodable,
      JsonLine(Dict(JInt(1), JInt(3), Absent)),     \* {"id": 1, "comments": 3}
      JsonLine(NonDict("number")) }                 \* 5

\* line 104: json.loads(line)
json_loads(line) ==
    IF line.text = "json" THEN [raises |-> FALSE, value |-> line.value]
    ELSE [raises |-> TRUE, value |-> line.value]

\* line 98: limit and line_num > limit (None and 0 are falsy)
LimitReached(lim, n) == lim # None /\ lim[1] # 0 /\ n > lim[1]

\* parse_arguments, lines 37-52: no limit, or any integer of the command line
Limits == {None} \cup {<<n>> : n \in -1..MaxLen}

VARIABLES
    lines,          \* the file, line by line
    limit,          \* None or <<n>>
    line_num,       \* the line enumerate(f, 1) gave last; 0 before the first
    rdata,          \* read_jsonlines: data
    consumed,       \* the line numbers that passed the test of line 98
    dropped,        \* the warnings of lines 106 and 109
    rpc             \* "idle", "loop", "returned"

rvars == <<lines, limit, line_num, rdata, consumed, dropped, rpc>>

ReaderInit ==
    /\ lines \in BoundedSeq(SampleLines, MaxLen)
    /\ limit \in Limits
    /\ line_num = 0
    /\ rdata = <<>>
    /\ consumed = {}
    /\ dropped = 0
    /\ rpc = "loop"

ReaderIdle ==
    /\ lines = <<>>
    /\ limit = None
    /\ line_num = 0
    /\ rdata = <<>>
    /\ consumed = {}
    /\ dropped = 0
    /\ rpc = "idle"

\* the iterator raises on bytes that are not UTF-8: lines 115-117
ReadFails ==
    /\ rpc = "loop"
    /\ line_num < Len(lines)
    /\ lines[line_num + 1].text = "undecodable"
    /\ line_num' = line_num + 1
    /\ rdata' = <<>>
    /\ rpc' = "returned"
    /\ UNCHANGED <<lines, limit, consumed, dropped>>

\* lines 98-99: break, then lines 112-113
ReadBreak ==
    /\ rpc = "loop"
    /\ line_num < Len(lines)
    /\ lines[line_num + 1].text # "undecodable"
    /\ LimitReached(limit, line_num + 1)
    /\ line_num' = line_num + 1
    /\ rpc' = "returned"
    /\ UNCHANGED <<lines, limit, rdata, consumed, dropped>>

\* lines 101-110: one line is stripped and, unless blank, decoded
ReadLine ==
    /\ rpc = "loop"
    /\ line_num < Len(lines)
    /\ lines[line_num + 1].text # "undecodable"
    /\ ~LimitReached(limit, line_num + 1)
    /\ line_num' = line_num + 1
    /\ consumed' = consumed \cup {line_num + 1}
    /\ LET line == lines[line_num + 1]
           v == json_loads(line)
       IN  IF line.text = "blank"
           THEN UNCHANGED <<rdata, dropped>>
           ELSE IF v.raises
                THEN dropped' = dropped + 1 /\ rdata' = rdata
                ELSE rdata' = Append(rdata, v.value) /\ dropped' = dropped
    /\ UNCHANGED <<lines, limit, rpc>>

\* the file ends: lines 112-113
ReadEnd ==
    /\ rpc = "loop"
    /\ line_num = Len(lines)
    /\ rpc' = "returned"
    /\ UNCHANGED <<lines, limit, line_num, rdata, consumed, dropped>>

(***************************************************************************)
(* One record through the loop body of process_batch (base.py lines        *)
(* 173-186) and the statement built from it: validate_data, extract_fields *)
(* and the row the server stores.                                          *)
(***************************************************************************)
\* values a comments / collects / score / rank field can hold
FieldValues ==
    {Absent, JNull, JInt(-1), JInt(0), JInt(3), JNumStr(3), JStr}

\* values of score_details and favorite
ObjectValues == {Absent, JNull, JList} \cup {JObj(n) : n \in 0..15}

SampleItems(kind) ==
    IF kind = "subject"
    THEN {SubjectDict(id, sc, sd, Absent, fv) :
            id \in {Absent, JNull, JInt(1)}, sc \in {Absent, JInt(8)},
            sd \in ObjectValues, fv \in ObjectValues}
    ELSE {Dict(id, c, l) :
            id \in {Absent, JNull, JInt(5)}, c \in FieldValues, l \in FieldValues}

VARIABLES
    rec_type,       \* the kind of the processor
    rec,            \* the item of the loop, line 173
    valid,          \* what validate_data gave: "", "true", "false", "raise"
    fields,         \* what extract_fields gave: [raise, params]
    row,            \* what the statement of the record stores: [ok, row]
    xpc             \* "idle", "validate", "extract", "insert", "skipped", "stored"

xvars == <<rec_type, rec, valid, fields, row, xpc>>

NoFields == [raise |-> FALSE, params |-> <<>>]

NoRow == [ok |-> FALSE, row |-> [id |-> 0, data_date |-> 0, vals |-> <<>>]]

RecordInit ==
    /\ rec_type \in SUPPORTED_TYPES
    /\ rec \in SampleItems(rec_type)
    /\ valid = ""
    /\ fields = NoFields
    /\ row = NoRow
    /\ xpc = "validate"

RecordIdle ==
    /\ rec_type = "character"
    /\ rec = NonDict("none")
    /\ valid = ""
    /\ fields = NoFields
    /\ row = NoRow
    /\ xpc = "idle"

\* lines 175-178 (and 183-186 when validate_data raises)
Validate ==
    /\ xpc = "validate"
    /\ valid' = validate_data(rec_type, rec)
    /\ xpc' = IF valid' = "true" THEN "extract" ELSE "skipped"
    /\ UNCHANGED <<rec_type, rec, fields, row>>

\* lines 180-181 (and 183-186 when extract_fields raises)
Extract ==
    /\ xpc = "extract"
    /\ fields' = extract_fields(rec_type, rec, data_date)
    /\ xpc' = IF fields'.raise THEN "skipped" ELSE "insert"
    /\ UNCHANGED <<rec_type, rec, valid, row>>

\* lines 189-193: the statement of the record, executed and committed
Insert ==
    /\ xpc = "insert"
    /\ row' = InsertedRow(rec_type, fields.params)
    /\ xpc' = IF row'.ok THEN "stored" ELSE "skipped"
    /\ UNCHANGED <<rec_type, rec, valid, fields>>

vars == <<evars, wvars, rvars, xvars>>

Init == EngineInit /\ WalkerIdle /\ ReaderIdle /\ RecordIdle

Next ==
    \/ (StartFile /\ UNCHANGED <<wvars, rvars, xvars>>)
    \/ (Rerun /\ UNCHANGED <<wvars, rvars, xvars>>)
    \/ (Batch /\ UNCHANGED <<wvars, rvars, xvars>>)
    \/ (FinishFile /\ UNCHANGED <<wvars, rvars, xvars>>)
    \/ (CloseProcessor /\ UNCHANGED <<wvars, rvars, xvars>>)

Spec == Init /\ [][Next]_vars

InitWalker == EngineIdle /\ WalkerInit /\ ReaderIdle /\ RecordIdle

NextWalker ==
    \/ (StartWalk /\ UNCHANGED <<rvars, xvars>>)
    \/ (StartSinglePass /\ UNCHANGED <<rvars, xvars>>)
    \/ (RemoveBefore /\ UNCHANGED <<rvars, xvars>>)
    \/ (Checkout /\ UNCHANGED <<rvars, xvars>>)
    \/ (ProcessDataType /\ UNCHANGED <<rvars, xvars>>)
    \/ (BackupDone /\ UNCHANGED <<rvars, xvars>>)
    \/ (Cleanup /\ UNCHANGED <<rvars, xvars>>)
    \/ (SinglePassDone /\ UNCHANGED <<rvars, xvars>>)
    \/ (Interrupt /\ UNCHANGED <<rvars, xvars>>)

SpecWalker == InitWalker /\ [][NextWalker]_vars

InitReader == EngineIdle /\ WalkerIdle /\ ReaderInit /\ RecordIdle

NextReader ==
    \/ (ReadFails /\ UNCHANGED <<evars, wvars, xvars>>)
    \/ (ReadBreak /\ UNCHANGED <<evars, wvars, xvars>>)
    \/ (ReadLine /\ UNCHANGED <<evars, wvars, xvars>>)
    \/ (ReadEnd /\ UNCHANGED <<evars, wvars, xvars>>)

SpecReader == InitReader /\ [][NextReader]_vars

InitRecord == EngineIdle /\ WalkerIdle /\ ReaderIdle /\ RecordInit

NextRecord ==
    \/ (Validate /\ UNCHANGED <<evars, wvars, rvars>>)
    \/ (Extract /\ UNCHANGED <<evars, wvars, rvars>>)
    \/ (Insert /\ UNCHANGED <<evars, wvars, rvars>>)

SpecRecord == InitRecord /\ [][NextRecord]_vars

(***************************************************************************)
(* Properties of the ingestion pipeline, checked under Spec.               *)
(***************************************************************************)
\* total_batches of line 224
NumBatches == (Len(data) + batch_size - 1) \div batch_size

\* the latest process_batch call returned (it raised nothing)
Returned == last.called /\ ~last.res.raised

\* record n of the latest batch passed validation and was extracted
Extracted(n) ==
    /\ validate_data(data_type, last.batch[n]) = "true"
    /\ ~extract_fields(data_type, last.batch[n], data_date).raise

\* the row the server builds from record n of the latest batch
RowOf(n) ==
    InsertedRow(data_type, extract_fields(data_type, last.batch[n], data_date).params).row

\* record n of the latest batch is in the table: its key is there, and with its
\* values unless a later record of the batch has the same key
Upserted(n) ==
    \E r \in store[data_type] :
        /\ Key(r) = Key(RowOf(n))
        /\ (\A m \in (n + 1)..Len(last.batch) :
               Extracted(m) => Key(RowOf(m)) # Key(r)) => r = RowOf(n)

\* C1: no table ever holds two rows with the same (id, data_date), whatever
\* batches were processed, committed or rolled back.
C1_UniqueKey ==
    \A k \in SUPPORTED_TYPES : \A r1, r2 \in store[k] :
        Key(r1) = Key(r2) => r1 = r2

\* a committed batch wrote a key that was already stored, with other values
C1_Witness ==
    /\ Returned
    /\ \E old \in last.before[data_type] : \E new \in store[data_type] :
          Key(old) = Key(new) /\ old # new

\* C2: when the statements of a batch fail, the committed tables after
\* process_batch are the ones before it and the exception reaches the caller.
C2_FailedBatchRolledBack ==
    (last.called /\ last.res.exec_failed) =>
        (store = last.before /\ last.res.raised)

\* the server rejected the second row of a batch whose first row it had taken
C2_Witness ==
    /\ last.called
    /\ last.res.exec_failed
    /\ Len(last.res.insert_data) = 2
    /\ InsertedRow(data_type, last.res.insert_data[1]).ok
    /\ InsertedRow(data_type, last.res.insert_data[1]).row \notin store[data_type]
    /\ ~InsertedRow(data_type, last.res.insert_data[2]).ok

RECURSIVE ErrorsOf(_)
ErrorsOf(l) ==
    IF l = <<>> THEN 0
    ELSE (IF l[Len(l)].raised THEN l[Len(l)].n ELSE l[Len(l)].error_count)
         + ErrorsOf(SubSeq(l, 1, Len(l) - 1))

\* C3: a batch that raises adds its length to the file's error count and the
\* loop goes on: every batch is processed, in file order, and a later batch
\* that returns has its rows committed.
C3_LoopSurvivesFailedBatch ==
    (\E k \in 1..Len(log) : log[k].raised) =>
        /\ total_error = ErrorsOf(log)
        /\ \A j \in 1..Len(log) : log[j].at = (j - 1) * batch_size
        /\ pc = "done" => Len(log) = NumBatches
        /\ Returned => \A n \in 1..Len(last.batch) : Extracted(n) => Upserted(n)

\* the first batch raised, the second one committed a row
C3_Witness ==
    /\ pc = "done"
    /\ Len(log) = 2
    /\ log[1].raised
    /\ ~log[2].raised
    /\ last.res.success_count > 0
    /\ store # last.before

\* C4 as stated: a batch that returns reports as errors exactly the records
\* that fail validation, and as successes those that pass.
C4_ErrorsAreValidationFailures ==
    Returned =>
        /\ last.res.error_count =
              Cardinality({n \in 1..Len(last.batch) :
                              validate_data(data_type, last.batch[n]) # "true"})
        /\ last.res.success_count =
              Cardinality({n \in 1..Len(last.batch) :
                              validate_data(data_type, last.batch[n]) = "true"})

\* C4 amended: a batch that returns has upserted every record that passed
\* validation and was extracted, success_count is their number, and
\* error_count is the number of the others (failed validation, or raised in
\* extraction).
C4_ErrorsAreSkippedRecords ==
    Returned =>
        /\ last.res.success_count =
              Cardinality({n \in 1..Len(last.batch) : Extracted(n)})
        /\ last.res.error_count =
              Cardinality({n \in 1..Len(last.batch) : ~Extracted(n)})
        /\ \A n \in 1..Len(last.batch) : Extracted(n) => Upserted(n)

\* a returned batch of one good record and one whose extraction raised
C4_Witness ==
    /\ Returned
    /\ last.res.success_count = 1
    /\ last.res.error_count = 1
    /\ \E n \in 1..Len(last.batch) :
          /\ validate_data(data_type, last.batch[n]) = "true"
          /\ extract_fields(data_type, last.batch[n], data_date).raise

\* C5: process_batch raises only when statement execution fails; a record
\* that cannot be validated or extracted, dict or not, is counted and skipped.
C5_RecordFailureAbsorbed ==
    (last.called /\ last.res.raised) => last.res.exec_failed

\* C6: the same file ingested twice under the same date leaves the tables as
\* one ingestion left them.
C6_Idempotent ==
    (pc = "done" /\ run = 2) => store = snap

\* the second run rewrote rows the first run had stored
C6_Witness ==
    /\ pc = "done"
    /\ run = 2
    /\ total_success >= 2
    /\ store[data_type] # {}
    /\ \E k \in 1..Len(log) : log[k].raised

(***************************************************************************)
(* Properties of the walker, checked under SpecWalker.                     *)
(***************************************************************************)
Hashes(cs) == [n \in 1..Len(cs) |-> cs[n][1]]

IsPrefix(a, b) == Len(a) <= Len(b) /\ a = SubSeq(b, 1, Len(a))

\* the start date is the date of some discovered checkpoint
StartMatches == \E n \in 1..Len(commits) : commits[n][2] = start_date

\* the first checkpoint carrying the start date
FirstMatch ==
    CHOOSE n \in 1..Len(commits) :
        /\ commits[n][2] = start_date
        /\ \A m \in 1..(n - 1) : commits[m][2] # start_date

\* the checkpoints from the first one carrying the start date to the end
FromStart == SubSeq(Hashes(commits), FirstMatch, Len(commits))

\* C7: started at the date of a discovered checkpoint, the walker checks out
\* and ingests the checkpoints from the first one with that date on, each once,
\* in list order, and all of them when no checkout fails (and no interrupt
\* ends the run).
C7_WalkFromStartDate ==
    (start_date # 0 /\ wpc # "start" /\ StartMatches) =>
        /\ IsPrefix(checkouts, FromStart)
        /\ IsPrefix(backups, FromStart)
        /\ (wpc = "returned" /\ ~checkout_failed /\ ~interrupted) =>
              (checkouts = FromStart /\ backups = FromStart /\ result = 0)

\* a walk that skipped an older checkpoint and ingested two
C7_Witness ==
    /\ wpc = "returned"
    /\ StartMatches
    /\ FirstMatch > 1
    /\ Len(backups) = 2
    /\ backups = FromStart
    /\ result = 0

\* C8: a failed checkout ends the walk: main returns 1, no ingestion ran
\* under that checkpoint and no later checkpoint is checked out.
C8_CheckoutFailureHalts ==
    checkout_failed =>
        /\ wpc = "returned"
        /\ result = 1
        /\ checkouts # <<>>
        /\ backups = SubSeq(checkouts, 1, Len(checkouts) - 1)
        /\ checkouts[Len(checkouts)] = commits[idx][1]
        /\ t = IF backups = <<>> THEN 0 ELSE Len(AllTypes)

\* the second checkout failed with another checkpoint still to come
C8_Witness ==
    /\ checkout_failed
    /\ Len(checkouts) = 2
    /\ idx < Len(commits)

\* C9: a checkpoint whose ingestion failed for some kind does not end the
\* walk: unless an interrupt ends it, the next checkpoint is checked out.
C9_PartialFailureGoesOn ==
    \A j \in partial :
        (wpc = "returned" /\ ~interrupted /\ j < Len(commits)) =>
            \E n \in 1..Len(checkouts) : checkouts[n] = commits[j + 1][1]

\* ingestion failed at one checkpoint and the next one was ingested
C9_Witness ==
    \E j \in partial :
        /\ j < Len(commits)
        /\ failed_kinds # {}
        /\ \E n \in 1..Len(backups) : backups[n] = commits[j + 1][1]
        /\ result = 0

\* C10: the walker never ends, nor moves to the next checkpoint, with files
\* of a checked-out checkpoint still in place.
C10_FilesRemovedOnEveryPath ==
    (start_date # 0 /\ wpc \in {"remove", "returned"}) =>
        \A k \in SUPPORTED_TYPES : files[k] \in {None, <<0>>}

(***************************************************************************)
(* C11: while a checkpoint is ingested (_backup_once, line 228) the        *)
(* current date is the checkpoint's date, from before the first kind to    *)
(* after the third, and every row a process_data_type call of that         *)
(* checkpoint writes carries that date.                                    *)
(***************************************************************************)
C11_RowsCarryCheckpointDate ==
    [][ /\ wpc' = "backup" => data_date' = commits'[idx'][2]
        /\ (wpc = "backup" /\ t' = t + 1) =>
              \A k \in SUPPORTED_TYPES :
                 \A r \in store'[k] \ store[k] : r.data_date = commits[idx][2] ]_vars

\* the second checkpoint of a walk, dated unlike the first, has been ingested
C11_Witness ==
    /\ wpc = "cleanup"
    /\ Len(backups) >= 2
    /\ commits[idx][2] # commits[idx - 1][2]
    /\ \E r \in store["character"] :
          r.data_date = commits[idx][2] /\ r.vals[1] = <<commits[idx][1]>>
    /\ \E r \in store["character"] :
          r.data_date = commits[idx - 1][2] /\ r.vals[1] = <<commits[idx - 1][1]>>

(***************************************************************************)
(* C12: main returns 0 only when no process_data_type call of the run      *)
(* returned False, in the single pass and in the walk alike.               *)
(***************************************************************************)
C12_PartialFailureExitsOne ==
    (wpc = "returned" /\ result = 0) => failed_kinds = {}

(***************************************************************************)
(* C13: in the single pass (lines 233-246) a process_data_type call that   *)
(* returns False leaves every table as it was and the loop goes on: unless *)
(* a KeyboardInterrupt ends the run, main returns only after a call for    *)
(* every selected kind.                                                    *)
(***************************************************************************)
C13_FailedKindOnlyMarked ==
    [][ /\ (wpc = "single" /\ t' = t + 1) =>
              /\ wpc' = "single"
              /\ failed_kinds' # failed_kinds => store' = store
        /\ (wpc = "single" /\ wpc' = "returned" /\ ~interrupted') =>
              t = Len(data_types) ]_vars

\* the first kind failed, nothing of it was stored, and a later kind was ingested
C13_Witness ==
    /\ start_date = 0
    /\ wpc = "returned"
    /\ data_types = AllTypes
    /\ failed_kinds = {"character"}
    /\ store["character"] = {}
    /\ store["subject"] # {}
    /\ t = 3

(***************************************************************************)
(* C14: while a checkpoint is ingested (_backup_once, line 228) every      *)
(* input file on disk is a file of that checkpoint.                        *)
(***************************************************************************)
C14_NoStaleFile ==
    wpc = "backup" =>
        \A k \in SUPPORTED_TYPES : files[k] \in {None, <<commits[idx][1]>>}

(***************************************************************************)
(* C15: the commits the walk checks out are in ascending date order: each  *)
(* one's dump date is not earlier than the date of the one before it.      *)
(***************************************************************************)
C15_AscendingDates ==
    \A n \in 2..Len(checkouts) :
       history[checkouts[n]] >= history[checkouts[n - 1]]

(***************************************************************************)
(* C16: no two entries of the list _list_dump_commits returned carry the   *)
(* same dump date.                                                         *)
(***************************************************************************)
C16_OneCheckpointPerDate ==
    \A m, n \in 1..Len(commits) : commits[m][2] = commits[n][2] => m = n

\* the values of the lines of ls that hold a JSON object, in file order
RECURSIVE ObjectsOf(_)
ObjectsOf(ls) ==
    IF ls = <<>> THEN <<>>
    ELSE LET rest == ObjectsOf(Tail(ls))
         IN  IF Head(ls).text = "json" /\ Head(ls).value.ty = "dict"
             THEN <<Head(ls).value>> \o rest
             ELSE rest

NonBlank(ls) == Cardinality({n \in 1..Len(ls) : ls[n].text # "blank"})

(***************************************************************************)
(* C17: with no limit read_jsonlines returns, in file order, the JSON      *)
(* objects of the file and nothing else: every returned record is a        *)
(* mapping, and returned records plus dropped lines are the non-blank      *)
(* lines.                                                                  *)
(***************************************************************************)
C17_ReturnsTheObjects ==
    (rpc = "returned" /\ limit = None) =>
        /\ rdata = ObjectsOf(lines)
        /\ \A n \in 1..Len(rdata) : rdata[n].ty = "dict"
        /\ Len(rdata) + dropped = NonBlank(lines)

(***************************************************************************)
(* C18: given a limit n, 0 included, read_jsonlines consumes no line whose *)
(* number exceeds n.                                                       *)
(***************************************************************************)
C18_LimitBoundsLines ==
    limit # None => \A n \in consumed : n <= limit[1]

\* records m < n of the latest batch were both extracted and have the same
\* key, and no later record of the batch has it
LaterOfTwo(m, n) ==
    /\ m < n
    /\ Extracted(m)
    /\ Extracted(n)
    /\ Key(RowOf(m)) = Key(RowOf(n))
    /\ \A j \in (n + 1)..Len(last.batch) :
          Extracted(j) => Key(RowOf(j)) # Key(RowOf(n))

(***************************************************************************)
(* C19: when two valid records of one batch have the same id, after the    *)
(* batch commits the table holds one row for that id and date, and every   *)
(* non-key column of it is the value extracted from the later record.      *)
(***************************************************************************)
C19_LastRecordWins ==
    Returned =>
        \A m, n \in 1..Len(last.batch) :
           LaterOfTwo(m, n) =>
              {r \in store[data_type] : Key(r) = Key(RowOf(n))} = {RowOf(n)}

\* two records with the same JSON id and different values, committed in one
\* batch over a stored row of that key with values of its own
C19_Witness ==
    /\ Returned
    /\ \E m, n \in 1..Len(last.batch) :
          /\ LaterOfTwo(m, n)
          /\ last.batch[m].id = last.batch[n].id
          /\ RowOf(m) # RowOf(n)
          /\ RowOf(n) \in store[data_type]
          /\ \E old \in last.before[data_type] :
                Key(old) = Key(RowOf(n)) /\ old # RowOf(n) /\ old # RowOf(m)

(***************************************************************************)
(* C20: a process_batch call under one data_date leaves every row stored   *)
(* under another date as it was, so an id ingested under two dates has one *)
(* row per date.                                                           *)
(***************************************************************************)
C20_OtherDatesUntouched ==
    last.called =>
        \A r \in last.before[data_type] :
           r.data_date # data_date => r \in store[data_type]

\* an id stored under one date was ingested under another date: two rows
C20_Witness ==
    /\ Returned
    /\ \E r1 \in last.before[data_type] : \E r2 \in store[data_type] :
          /\ r1 \in store[data_type]
          /\ r2 \notin last.before[data_type]
          /\ r1.id = r2.id
          /\ r1.data_date # r2.data_date
          /\ r2.data_date = data_date
          /\ r1.vals # r2.vals

(***************************************************************************)
(* C21: the row extracted from a valid character/person record has         *)
(* comments and collects that are integers >= 0, and 0 for a field that    *)
(* is missing or null.                                                     *)
(***************************************************************************)
C21_CountsNotNegative ==
    (rec_type # "subject" /\ xpc \in {"insert", "stored"}) =>
        /\ fields.params[2][1] = "int" /\ fields.params[2][2] >= 0
        /\ fields.params[3][1] = "int" /\ fields.params[3][2] >= 0
        /\ IsNone(rec.comments) => fields.params[2] = JInt(0)
        /\ IsNone(rec.collects) => fields.params[3] = JInt(0)

NoneOrObject(v) == IsNone(v) \/ v[1] = "obj"

(***************************************************************************)
(* C22: validate_data accepts a subject record exactly when its id is      *)
(* there and not null and score_details and favorite are each missing,     *)
(* null or an object, whatever keys the objects hold; the favorite of an   *)
(* accepted record is stored with all its keys.                            *)
(***************************************************************************)
C22_KeysNeverReject ==
    (rec_type = "subject" /\ xpc # "validate") =>
        /\ valid = "true" <=>
              /\ ~IsNone(rec.id)
              /\ NoneOrObject(rec.score_details)
              /\ NoneOrObject(rec.favorite)
        /\ (xpc = "stored" /\ ~IsNone(rec.favorite)) =>
              row.row.vals[4] = <<rec.favorite[2]>>

(***************************************************************************)
(* C23: when process_file ends, total_success + total_error is the number  *)
(* of records read, and the process_batch calls took the records in file   *)
(* order, batch_size at a time: batch k starts at record (k-1)*batch_size  *)
(* and holds the records up to the next start or the end of the data.      *)
(***************************************************************************)
C23_EveryRecordCounted ==
    pc = "done" =>
        /\ total_success + total_error = Len(data)
        /\ Len(log) = NumBatches
        /\ \A k \in 1..Len(log) :
              /\ log[k].at = (k - 1) * batch_size
              /\ log[k].n = Min(batch_size, Len(data) - log[k].at)
              /\ log[k].n >= 1
              /\ log[k].n <= batch_size

\* a file of MaxLen records ended after a batch that skipped a record and a
\* batch that raised
C23_Witness ==
    /\ pc = "done"
    /\ Len(data) = MaxLen
    /\ total_success > 0
    /\ \E k \in 1..Len(log) : log[k].raised
    /\ \E k \in 1..Len(log) : ~log[k].raised /\ log[k].error_count > 0

(***************************************************************************)
(* C24: when process_data_type has returned, the connection it opened is   *)
(* closed, and no more than one processor connection is ever open at a     *)
(* time.                                                                   *)
(***************************************************************************)
C24_ConnectionClosed ==
    open_connections = 0 /\ max_open <= 1

\* a call that failed after connect_db and a call that succeeded have both
\* returned
C24_Witness ==
    /\ max_open = 1
    /\ t >= 2
    /\ ok >= 1
    /\ \E k \in failed_kinds : files[k] = None

(***************************************************************************)
(* C25: in walker mode, when _list_dump_commits returns no commit or none  *)
(* dated start_date, main returns 1 at once: nothing is checked out, no    *)
(* file is removed, nothing is ingested and the tables are unchanged.      *)
(***************************************************************************)
C25_NoMatchDoesNothing ==
    [][ (wpc = "start" /\ start_date # 0 /\
         \A n \in 1..Len(commits') : commits'[n][2] # start_date) =>
            /\ wpc' = "returned"
            /\ result' = 1
            /\ checkouts' = <<>>
            /\ backups' = <<>>
            /\ files' = files
            /\ store' = store ]_vars

\* commits were discovered, none of them dated start_date; main returned 1
\* and the input files main found are still there
C25_Witness ==
    /\ start_date # 0
    /\ wpc = "returned"
    /\ commits # <<>>
    /\ ~StartMatches
    /\ result = 1
    /\ checkouts = <<>>
    /\ \E k \in SUPPORTED_TYPES : files[k] # None

====
